---- MODULE Spec2Model ----
(***************************************************************************)
(* Verification model of the RAG chatbot repository.                       *)
(*                                                                         *)
(*  - Translation Cache State Machine (backend, spec.md 4.5) driven by     *)
(*    instances of the useTranslation hook                                 *)
(*    (frontend/src/hooks/useTranslation.ts) through the api client        *)
(*    (frontend/src/hooks/useAuth.ts, api.getTranslation /                 *)
(*    api.requestTranslation).                                             *)
(*  - Retrieval-and-Confidence Gate and the answer engine (backend,        *)
(*    spec.md 4.1-4.3) driven by the useChat hook.                         *)
(***************************************************************************)
EXTENDS Integers, Sequences, FiniteSets, Bags, TLC

VARIABLES
    \* ---- translation backend (TranslationJob table) ----
    jobs,       \* set of TranslationJob rows
    now,        \* backend clock
    \* ---- api transport of the translation endpoints ----
    net,        \* bag of translation requests in flight (with their response)
    \* ---- useTranslation hook instances ----
    cl,         \* cl[c]: state and refs of hook instance c
    \* ---- useChat hook ----
    chat,       \* state and refs of the useChat hook
    chatNet,    \* chat requests in flight (with the closure of their sender)
    \* ---- answer engine (backend) ----
    convStore,  \* Conversation Store: conversation id -> number of turns
    \* ---- useTextSelection hook of the TextSelector ----
    sel,        \* selection state: the selected text and its validation error
    \* ---- usePageTranslation hook, PageTranslationContext and the page ----
    page,       \* the DOM under the root element, the context state and the hook's refs
    pageNet,    \* translation calls and poll timers of translatePage
    \* ---- Retrieval-and-Confidence Gate as a function ----
    gateIn,     \* input of evaluate: fragments returned by the index, threshold
    decision,   \* CoverageDecision produced by evaluate
    \* ---- useAuth hook, localStorage and the api client ----
    auth,       \* state of the useAuth hook and the localStorage of the browser
    authNet     \* api calls in flight: auth endpoints and chat requests

transVars == <<jobs, now, net, cl>>
chatVars  == <<chat, chatNet, convStore, sel>>
pageVars  == <<page, pageNet>>
gateVars  == <<gateIn, decision>>
authVars  == <<auth, authNet>>
vars      == <<jobs, now, net, cl, chat, chatNet, convStore, sel, page, pageNet,
               gateIn, decision, auth, authNet>>

NULL == "null"

(***************************************************************************)
(* Bounds                                                                  *)
(***************************************************************************)
NumClients  == 2      \* hook instances (callers) of the translation endpoints
MaxInFlight == 1      \* outstanding api calls per hook instance
MaxTime     == 2      \* last value of the backend clock

Clients  == 1..NumClients
Chapters == {"ch1"}

\* api.requestTranslation / api.getTranslation default language
DefaultLanguage == "ur"
\* freshness period of a completed translation, in clock ticks
TTL == 1

Key(ch) == <<ch, DefaultLanguage>>
Keys == {Key(ch) : ch \in Chapters}

(***************************************************************************)
(* TranslationJob table                                                    *)
(***************************************************************************)
NoContent == <<"none", 0>>

RowsOf(k) == {j \in jobs : j.key = k}

Expired_late(j) == j.status = "completed" /\ now > j.expires_at

\* expires_at reached
Expired(j) == j.status = "completed" /\ now >= j.expires_at

Fresh(j) == j.status = "completed" /\ ~Expired(j)

Stale_completed(j) == j.status \in {"failed", "completed"}

\* a row that the next claim supersedes
Stale(j) == j.status = "failed" \/ Expired(j)

\* status of a key as the state machine of spec.md 4.5 sees it
Status(k) ==
    IF \A j \in RowsOf(k) : Expired(j) THEN "absent"
    ELSE (CHOOSE j \in RowsOf(k) : ~Expired(j)).status

\* the condition of the atomic conditional write
ClaimGuard_stale(k) == TRUE

ClaimGuard(k) == \A j \in RowsOf(k) : Stale(j)

\* the text the generative backend returns for a job: one text per generation run
Generated(j) == <<"tr", j.owner>>

NoResp == [type |-> "none", content |-> NoContent, status |-> NULL]
\* TranslationResponse
ContentResp(t) == [type |-> "content", content |-> t, status |-> "completed"]
\* TranslationPendingResponse, and the terminal status report of a failed job
StatusResp(st) == [type |-> "status", content |-> NoContent, status |-> st]
\* a response that is not ok, or no response: apiFetch throws
ErrorResp == [type |-> "error", content |-> NoContent, status |-> NULL]

InFlight == BagToSet(net)

SetReq(r, r2) == net' = (net (-) SetToBag({r})) (+) SetToBag({r2})

\* steps 1 and 2 of request(): look the job up by key
Lookup(r) ==
    /\ r.stage = "sent"
    /\ LET st == Status(r.key)
           j == CHOOSE j \in RowsOf(r.key) : ~Expired(j)
       IN  IF st = "completed"
           THEN SetReq(r, [r EXCEPT !.stage = "done", !.resp = ContentResp(j.content)])
           ELSE IF st \in {"pending", "generating"}
           THEN SetReq(r, [r EXCEPT !.stage = "done", !.resp = StatusResp("in_progress")])
           ELSE IF r.method = "POST"
           THEN SetReq(r, [r EXCEPT !.stage = "claim"])
           ELSE IF st = "failed"
           THEN SetReq(r, [r EXCEPT !.stage = "done", !.resp = StatusResp("failed")])
           ELSE SetReq(r, [r EXCEPT !.stage = "done", !.resp = ErrorResp])
    /\ UNCHANGED <<jobs, now, cl>>

\* step 3 of request(): claim the key with one atomic conditional write;
\* a claimant that loses falls into step 2 on its next read
Claim(r) ==
    /\ r.stage = "claim"
    /\ IF ClaimGuard(r.key)
       THEN /\ jobs' = (jobs \ {j \in RowsOf(r.key) : Stale(j)}) \cup
                       {[key |-> r.key, status |-> "pending", content |-> NoContent,
                         expires_at |-> 0, owner |-> r.client, starts |-> 0]}
            /\ SetReq(r, [r EXCEPT !.stage = "done", !.resp = StatusResp("in_progress")])
       ELSE /\ SetReq(r, [r EXCEPT !.stage = "sent"])
            /\ UNCHANGED jobs
    /\ UNCHANGED <<now, cl>>

\* the background job of the claimant: pending -> generating
StartGenerating(j) ==
    /\ j.status = "pending"
    /\ jobs' = (jobs \ {j}) \cup {[j EXCEPT !.status = "generating", !.starts = @ + 1]}
    /\ UNCHANGED <<now, net, cl>>

\* generating -> completed, with content and a freshness deadline
Complete(j) ==
    /\ j.status = "generating"
    /\ jobs' = (jobs \ {j}) \cup
               {[j EXCEPT !.status = "completed", !.content = Generated(j),
                          !.expires_at = now + TTL]}
    /\ UNCHANGED <<now, net, cl>>

\* generating -> failed on a backend error
Fail(j) ==
    /\ j.status = "generating"
    /\ jobs' = (jobs \ {j}) \cup {[j EXCEPT !.status = "failed"]}
    /\ UNCHANGED <<now, net, cl>>

\* explicit invalidation of a completed job
Invalidate(j) ==
    /\ j.status = "completed"
    /\ jobs' = jobs \ {j}
    /\ UNCHANGED <<now, net, cl>>

Tick ==
    /\ now < MaxTime
    /\ now' = now + 1
    /\ UNCHANGED <<jobs, net, cl>>

\* the request does not reach the engine, or the engine is unavailable:
\* fetch rejects or the response is not ok, and apiFetch throws
RequestFails(r) ==
    /\ r.stage = "sent"
    /\ SetReq(r, [r EXCEPT !.stage = "done", !.resp = ErrorResp])
    /\ UNCHANGED <<jobs, now, cl>>

(***************************************************************************)
(* useTranslation                                                          *)
(***************************************************************************)
Outstanding(c) == BagCardinality([r \in {x \in InFlight : x.client = c} |-> net[r]])

\* the bound of a specification on the calls a hook instance has outstanding
CanSend(c) == Outstanding(c) < MaxInFlight

Request(c, kind, method, ch, body) ==
    [client |-> c, kind |-> kind, method |-> method, chapter |-> ch,
     key |-> Key(ch), body |-> body, stage |-> "sent", resp |-> NoResp]

Send(r) == net' = net (+) SetToBag({r})

Settle(r) == net' = net (-) SetToBag({r})

\* the state of an unmounted component is gone: its setters do nothing, its refs remain
Commit(c, new) ==
    IF cl[c].mounted THEN new
    ELSE [cl[c] EXCEPT !.timer = new.timer, !.chapter = new.chapter]

stopPolling(s) == [s EXCEPT !.timer = NULL]

handleResponse_noStatus(s, resp) ==
    IF resp.type = "content"
    THEN stopPolling([s EXCEPT !.content = resp.content])
    ELSE [s EXCEPT !.status = "polling"]

handleResponse(s, resp) ==
    IF resp.type = "content"
    THEN stopPolling([s EXCEPT !.content = resp.content, !.status = "completed"])
    ELSE [s EXCEPT !.status = "polling"]

startPolling(s, ch) == [stopPolling(s) EXCEPT !.chapter = ch, !.timer = ch]

\* the catch block of requestTranslation and getTranslation
catchError(s) == [s EXCEPT !.error = "failed", !.status = "error"]

\* requestTranslation up to its await: api.requestTranslation(chapterSlug),
\* the chapter content is not passed on
requestTranslation(c, ch) ==
    /\ cl[c].mounted
    /\ Send(Request(c, "request", "POST", ch, NoContent))
    /\ cl' = [cl EXCEPT ![c] = [@ EXCEPT !.status = "loading", !.error = NULL,
                                         !.content = NoContent, !.chapter = ch]]
    /\ UNCHANGED <<jobs, now>>

\* requestTranslation after its await
requestTranslationSettled(r) ==
    /\ r.kind = "request" /\ r.stage = "done"
    /\ LET c == r.client
           s == cl[c]
       IN  cl' = [cl EXCEPT ![c] = Commit(c,
                  IF r.resp.type = "error" THEN catchError(s)
                  ELSE IF r.resp.type = "content" THEN handleResponse(s, r.resp)
                  ELSE startPolling(handleResponse(s, r.resp), r.chapter))]
    /\ Settle(r)
    /\ UNCHANGED <<jobs, now>>

\* getTranslation up to its await
getTranslation(c, ch) ==
    /\ cl[c].mounted
    /\ Send(Request(c, "get", "GET", ch, NoContent))
    /\ cl' = [cl EXCEPT ![c] = [@ EXCEPT !.status = "loading", !.error = NULL,
                                         !.chapter = ch]]
    /\ UNCHANGED <<jobs, now>>

\* getTranslation after its await
getTranslationSettled(r) ==
    /\ r.kind = "get" /\ r.stage = "done"
    /\ LET c == r.client
           s == cl[c]
       IN  cl' = [cl EXCEPT ![c] = Commit(c,
                  IF r.resp.type = "error" THEN catchError(s)
                  ELSE IF r.resp.type = "content" THEN handleResponse(s, r.resp)
                  ELSE startPolling(handleResponse(s, r.resp), r.chapter))]
    /\ Settle(r)
    /\ UNCHANGED <<jobs, now>>

\* the setInterval callback of startPolling, and pollTranslation up to its await
pollTick(c) ==
    /\ cl[c].timer # NULL
    /\ cl[c].chapter = cl[c].timer
    /\ Send(Request(c, "poll", "GET", cl[c].timer, NoContent))
    /\ UNCHANGED <<jobs, now, cl>>

\* pollTranslation after its await: an error is logged and polling goes on
pollTranslationSettled(r) ==
    /\ r.kind = "poll" /\ r.stage = "done"
    /\ LET c == r.client
       IN  cl' = [cl EXCEPT ![c] = Commit(c,
                  IF r.resp.type = "error" THEN cl[c]
                  ELSE handleResponse(cl[c], r.resp))]
    /\ Settle(r)
    /\ UNCHANGED <<jobs, now>>

reset_cancel(c) ==
    /\ cl[c].mounted
    /\ cl' = [cl EXCEPT ![c] = [stopPolling(@) EXCEPT !.content = NoContent,
                                  !.status = "idle", !.error = NULL, !.chapter = NULL]]
    /\ jobs' = {j \in jobs : j.owner # c \/ j.status \notin {"pending", "generating"}}
    /\ UNCHANGED <<now, net>>

reset(c) ==
    /\ cl[c].mounted
    /\ cl' = [cl EXCEPT ![c] = [stopPolling(@) EXCEPT !.content = NoContent,
                                  !.status = "idle", !.error = NULL, !.chapter = NULL]]
    /\ UNCHANGED <<jobs, now, net>>

\* the cleanup of the unmount effect; the component's state goes away with it
unmount(c) ==
    /\ cl[c].mounted
    /\ cl' = [cl EXCEPT ![c] = [stopPolling(@) EXCEPT !.mounted = FALSE,
                                  !.content = NoContent, !.status = "idle",
                                  !.error = NULL]]
    /\ UNCHANGED <<jobs, now, net>>

(***************************************************************************)
(* TranslateButton                                                         *)
(***************************************************************************)
\* the button's chapterSlug and content props
ButtonChapter == "ch1"

ChapterContent(ch) == <<"text", ch>>

\* the promise of useTranslation.getTranslation is rejected only by an error that
\* escapes the hook's own try/catch, and that catch block takes every error of the call
getTranslationRejects(r) == FALSE

\* handleClick up to its await, in the states in which it looks the translation up
handleClick(c) ==
    /\ ~(cl[c].status = "completed" /\ cl[c].content # NoContent)
    /\ cl[c].status \notin {"loading", "polling"}
    /\ getTranslation(c, ButtonChapter)

\* handleClick after its await: the catch block requests a new translation when
\* getTranslation has rejected
handleClickSettled(r) ==
    IF getTranslationRejects(r)
    THEN /\ r.kind = "get" /\ r.stage = "done"
         /\ net' = (net (-) SetToBag({r})) (+)
                   SetToBag({Request(r.client, "request", "POST", r.chapter, NoContent)})
         /\ cl' = [cl EXCEPT ![r.client] =
                      [@ EXCEPT !.status = "loading", !.error = NULL,
                                !.content = NoContent, !.chapter = r.chapter]]
         /\ UNCHANGED <<jobs, now>>
    ELSE getTranslationSettled(r)

(***************************************************************************)
(* Retrieval-and-Confidence Gate                                           *)
(***************************************************************************)
Scale        == 10    \* similarity scores are counted in steps of 1/Scale
MaxFragments == 2     \* fragments the index returns for a query

Scores == 0..Scale

\* CONFIDENCE_THRESHOLD = float(os.getenv("CONFIDENCE_THRESHOLD", "0.7"))
CONFIDENCE_THRESHOLD == 7

\* the index returns its fragments ordered by descending score
Descending(f) == \A i \in 1..(Len(f) - 1) : f[i] >= f[i + 1]

FragmentLists ==
    {f \in UNION {[1..n -> Scores] : n \in 0..MaxFragments} : Descending(f)}

RECURSIVE MaxOver(_, _)
MaxOver(f, i) ==
    IF i > Len(f) THEN 0
    ELSE LET m == MaxOver(f, i + 1) IN IF f[i] > m THEN f[i] ELSE m

\* the maximum score among the returned fragments, 0 if none returned
MaxSimilarity(f) == MaxOver(f, 1)

Covered_strict(m, t) == m > t

Covered_noGate(m, t) == TRUE

\* if max_similarity < CONFIDENCE_THRESHOLD: return "Not covered in this book"
Covered(m, t) == ~(m < t)

evaluate(f, t) ==
    [covered |-> Covered(MaxSimilarity(f), t), fragments |-> f,
     max_similarity |-> MaxSimilarity(f)]

(***************************************************************************)
(* Answer engine                                                           *)
(***************************************************************************)
MaxSends == 3         \* questions sent in one session

Questions     == {"q1"}
\* useTextSelection / TextSelector defaults
minLength == 10
maxLength == 50000

\* a text is <<number of characters of its trimmed form, surrounding whitespace>>
Length(text) == text[1] + text[2]

\* String.prototype.trim
Trim(text) == <<text[1], 0>>

\* the texts a reader can select: blank, one short of the minimum although longer with its
\* whitespace, the minimum, the maximum with whitespace around it, one too long
SelectedTexts ==
    {<<0, 1>>, <<minLength - 1, 1>>, <<minLength, 0>>, <<maxLength, 1>>, <<maxLength + 1, 0>>}

FallbackBook      == "Not covered in this book"
FallbackSelection == "Not in selected text"
Answer            == "answer"

\* the scores the index returns in a session: below, at and above the threshold
SessionFragments ==
    {f \in FragmentLists :
        \A i \in 1..Len(f) :
            f[i] \in {CONFIDENCE_THRESHOLD - 1, CONFIDENCE_THRESHOLD, Scale}}

\* a citation: {section id, relevance} of a fragment
Citations(f) == {<<i, f[i]>> : i \in 1..Len(f)}

NoChatResp == [type |-> "none", message |-> NULL, conversation_id |-> NULL,
               sources |-> {}, is_covered |-> FALSE]

\* ChatResponse
AnswerResp(text, conv, cites, cov) ==
    [type |-> "answer", message |-> text, conversation_id |-> conv,
     sources |-> cites, is_covered |-> cov]

ChatErrorResp(code) ==
    [type |-> "error", message |-> code, conversation_id |-> NULL,
     sources |-> {}, is_covered |-> FALSE]

\* AnswerResult: a generated text that is the fallback phrase is not covered
AnswerResult(text, cites, fallback) ==
    [text |-> text, is_covered |-> text # fallback,
     source_citations |-> IF text = fallback THEN {} ELSE cites]

NoResult == [text |-> NULL, is_covered |-> FALSE, source_citations |-> {}]

ConvOf(r) == IF r.conversation_id = NULL THEN <<"conv", r.id>> ELSE r.conversation_id

\* appendTurn(id, turn)
appendTurn(id) ==
    IF id \in DOMAIN convStore
    THEN [convStore EXCEPT ![id] = @ + 1]
    ELSE convStore @@ (id :> 1)

Replace(r, r2) == chatNet' = (chatNet \ {r}) \cup {r2}

Respond(r, res) ==
    [r EXCEPT !.stage = "done", !.result = res,
              !.resp = AnswerResp(res.text, ConvOf(r), res.source_citations, res.is_covered)]

Refuse(r, code) ==
    [r EXCEPT !.stage = "done", !.failed = code, !.resp = ChatErrorResp(code)]

\* answerFullBook up to the gate: embed, search, evaluate; not covered short-circuits
\* to the fixed fallback AnswerResult
Retrieve(r) ==
    /\ r.kind = "chat" /\ r.stage = "sent"
    /\ \/ /\ Replace(r, Refuse([r EXCEPT !.calls = @ \cup {"embed"}], "EmbeddingUnavailable"))
          /\ UNCHANGED convStore
       \/ /\ Replace(r, Refuse([r EXCEPT !.calls = @ \cup {"embed", "search"}],
                               "IndexUnavailable"))
          /\ UNCHANGED convStore
       \/ \E f \in SessionFragments :
            LET d == evaluate(f, CONFIDENCE_THRESHOLD)
                r1 == [r EXCEPT !.calls = @ \cup {"embed", "search"}, !.decision = {d}]
            IN  IF d.covered
                THEN /\ Replace(r, [r1 EXCEPT !.stage = "generate"])
                     /\ UNCHANGED convStore
                ELSE /\ Replace(r, Respond([r1 EXCEPT !.calls = @ \cup {"appendTurn"}],
                                           AnswerResult(FallbackBook, {}, FallbackBook)))
                     /\ convStore' = appendTurn(ConvOf(r))
    /\ UNCHANGED <<chat>>

\* answerFullBook after the gate: prior turns, generation, citation attachment
Generate(r) ==
    /\ r.kind = "chat" /\ r.stage = "generate"
    /\ LET r1 == [r EXCEPT !.calls = @ \cup {"generate"} \cup
                             (IF r.conversation_id = NULL THEN {} ELSE {"loadConversation"})]
       IN  \/ /\ \E code \in {"GenerationUnavailable", "GenerationTimeout"} :
                    Replace(r, Refuse(r1, code))
              /\ UNCHANGED convStore
           \/ /\ \E text \in {Answer, FallbackBook} :
                 \E d \in r.decision : \E cites \in SUBSET Citations(d.fragments) :
                    Replace(r, Respond([r1 EXCEPT !.calls = @ \cup {"appendTurn"}],
                                       AnswerResult(text, cites, FallbackBook)))
              /\ convStore' = appendTurn(ConvOf(r))
    /\ UNCHANGED <<chat>>

\* answerSelectedText: the evidence is the selected text only, never cited; the API
\* layer in front of the engine is free in the sources it puts into the ChatResponse
AnswerSelected(r) ==
    /\ r.kind = "selected" /\ r.stage = "sent"
    /\ LET r1 == [r EXCEPT !.calls = @ \cup {"generate"}]
       IN  \/ \E code \in {"GenerationUnavailable", "GenerationTimeout"} :
                 Replace(r, Refuse(r1, code))
           \/ \E text \in {Answer, FallbackSelection} :
              \E wire \in {{}, {<<1, Scale>>}} :
                 LET res == AnswerResult(text, {}, FallbackSelection)
                 IN  Replace(r, [Respond(r1, res) EXCEPT !.resp.sources = wire])
    /\ UNCHANGED <<chat, convStore>>

\* fetch rejects: the request never reaches the engine
ChatRequestFails(r) ==
    /\ r.stage = "sent"
    /\ Replace(r, Refuse(r, "NetworkError"))
    /\ UNCHANGED <<chat, convStore>>

(***************************************************************************)
(* useChat and the ChatWidget                                              *)
(***************************************************************************)
UserMessage(n, content, kind) ==
    [id |-> <<n, "user">>, role |-> "user", content |-> content, sources |-> {},
     via |-> kind]

AssistantMessage(n, content, sources, kind) ==
    [id |-> <<n, "assistant">>, role |-> "assistant", content |-> content,
     sources |-> sources, via |-> kind]

\* the message ids of a list of messages (messages are never edited in place)
Ids(msgs) == [i \in 1..Len(msgs) |-> msgs[i].id]

\* no failed attempt is on display
NoFailure == [kind |-> "none", text |-> NULL]

\* the request of chatApi.sendMessage / chatApi.sendSelectedTextMessage, with the
\* conversationId of the render that sent it; before records the ids of the
\* messages the send started from
ChatRequest(s, kind, content, text) ==
    [id |-> s.sends + 1, kind |-> kind, message |-> content, selected_text |-> text,
     conversation_id |-> s.conversationId, stage |-> "sent", calls |-> {},
     decision |-> {}, failed |-> NULL, result |-> NoResult, resp |-> NoChatResp,
     before |-> Ids(s.messages)]

\* the synchronous part of sendMessage and sendSelectedTextMessage
Sending(s, kind, content, text) ==
    [s EXCEPT !.lastUserMessageRef = content,
              !.lastSelectedTextRef = IF kind = "selected" THEN text ELSE @,
              !.messages = Append(@, UserMessage(s.sends + 1, content, kind)),
              !.isLoading = TRUE, !.error = NULL, !.sends = @ + 1,
              !.op = <<"send", kind>>,
              !.stale = FALSE, !.onError = 0, !.failed = NoFailure]

sendMessage_unguarded(content) ==
    /\ chat.sends < MaxSends
    /\ chat' = Sending(chat, "chat", content, NULL)
    /\ chatNet' = chatNet \cup {ChatRequest(chat, "chat", content, NULL)}
    /\ UNCHANGED convStore

sendMessage(content) ==
    /\ ~chat.isLoading
    /\ chat.sends < MaxSends
    /\ chat' = Sending(chat, "chat", content, NULL)
    /\ chatNet' = chatNet \cup {ChatRequest(chat, "chat", content, NULL)}
    /\ UNCHANGED convStore

sendSelectedTextMessage(content, text) ==
    /\ ~chat.isLoading
    /\ Length(Trim(text)) > 0
    /\ chat.sends < MaxSends
    /\ chat' = Sending(chat, "selected", content, Trim(text))
    /\ chatNet' = chatNet \cup {ChatRequest(chat, "selected", content, Trim(text))}
    /\ UNCHANGED convStore

Without(msgs, id) == SelectSeq(msgs, LAMBDA m : m.id # id)

catchSend_fallback(s, r) ==
    [s EXCEPT !.error = r.resp.message,
              !.messages = Append(Without(@, <<r.id, "user">>),
                                  AssistantMessage(r.id, FallbackBook, {}, r.kind)),
              !.isLoading = FALSE, !.op = <<"settle", r.kind>>,
              !.stale = FALSE, !.onError = 1,
              !.failed = [kind |-> r.kind, text |-> r.selected_text]]

catchSend_keepsMessage(s, r) ==
    [s EXCEPT !.error = r.resp.message,
              !.isLoading = FALSE, !.op = <<"settle", r.kind>>,
              !.stale = FALSE, !.onError = 1,
              !.failed = [kind |-> r.kind, text |-> r.selected_text]]

\* the catch and finally blocks of sendMessage and sendSelectedTextMessage
catchSend(s, r) ==
    [s EXCEPT !.error = r.resp.message,
              !.messages = Without(@, <<r.id, "user">>),
              !.isLoading = FALSE, !.op = <<"settle", r.kind>>,
              !.stale = FALSE, !.onError = 1,
              !.failed = [kind |-> r.kind, text |-> r.selected_text]]

Sources_wire(r) == r.resp.sources

\* the sources of the assistant message
Sources(r) == IF r.kind = "selected" THEN {} ELSE r.resp.sources

\* the try and finally blocks after the await
thenSend(s, r) ==
    [s EXCEPT !.conversationId = IF r.conversation_id = NULL
                                 THEN r.resp.conversation_id ELSE @,
              !.messages = Append(@, AssistantMessage(r.id, r.resp.message, Sources(r),
                                                      r.kind)),
              !.isLoading = FALSE, !.op = <<"settle", r.kind>>,
              !.supplied = IF ~s.stale /\ @ = NULL THEN r.resp.conversation_id ELSE @,
              !.stale = FALSE, !.onError = 0]

sendMessageSettled(r) ==
    /\ r.kind = "chat" /\ r.stage = "done"
    /\ chat' = IF r.resp.type = "error" THEN catchSend(chat, r) ELSE thenSend(chat, r)
    /\ chatNet' = chatNet \ {r}
    /\ UNCHANGED convStore

sendSelectedTextMessageSettled(r) ==
    /\ r.kind = "selected" /\ r.stage = "done"
    /\ chat' = IF r.resp.type = "error" THEN catchSend(chat, r) ELSE thenSend(chat, r)
    /\ chatNet' = chatNet \ {r}
    /\ UNCHANGED convStore

Entered_keepsConversation(s, text) ==
    [s EXCEPT !.mode = "selected_text", !.selectedText = text, !.messages = <<>>,
              !.error = NULL, !.op = <<"enter", text>>,
              !.stale = s.isLoading, !.supplied = NULL, !.onError = 0,
              !.failed = NoFailure]

Entered(s, text) ==
    [s EXCEPT !.mode = "selected_text", !.selectedText = text, !.messages = <<>>,
              !.conversationId = NULL, !.error = NULL,
              !.op = <<"enter", text>>,
              !.stale = s.isLoading, !.supplied = NULL, !.onError = 0,
              !.failed = NoFailure]

enterSelectedTextMode(text) ==
    /\ chat' = Entered(chat, text)
    /\ UNCHANGED <<chatNet, convStore>>

exitSelectedTextMode ==
    /\ chat' = [chat EXCEPT !.mode = "full_book", !.selectedText = NULL,
                            !.messages = <<>>, !.conversationId = NULL, !.error = NULL,
                            !.lastSelectedTextRef = NULL,
                            !.op = <<"exit", NULL>>,
                            !.stale = chat.isLoading, !.supplied = NULL,
                            !.onError = 0, !.failed = NoFailure]
    /\ UNCHANGED <<chatNet, convStore>>

clearConversation ==
    /\ chat' = [chat EXCEPT !.messages = <<>>, !.conversationId = NULL, !.error = NULL,
                            !.lastUserMessageRef = NULL, !.lastSelectedTextRef = NULL,
                            !.mode = "full_book", !.selectedText = NULL,
                            !.op = <<"clear", NULL>>,
                            !.stale = chat.isLoading, !.supplied = NULL,
                            !.onError = 0, !.failed = NoFailure]
    /\ UNCHANGED <<chatNet, convStore>>

\* ChatWidget.handleSendMessage: the request the widget sends for a question
Routed(s) == IF s.mode = "selected_text" /\ s.selectedText # NULL THEN "selected" ELSE "chat"

handleSendMessage(content) ==
    IF Routed(chat) = "selected"
    THEN sendSelectedTextMessage(content, chat.selectedText)
    ELSE sendMessage(content)

\* index of the last user message, 0 if there is none
LastUser(msgs) ==
    LET idx == {i \in 1..Len(msgs) : msgs[i].role = "user"}
    IN  IF idx = {} THEN 0 ELSE CHOOSE i \in idx : \A k \in idx : k <= i

retryLastMessage ==
    /\ chat.lastUserMessageRef # NULL
    /\ ~chat.isLoading
    /\ chat.sends < MaxSends
    /\ LET msgs == chat.messages
           kept == IF LastUser(msgs) > 0 THEN SubSeq(msgs, 1, LastUser(msgs) - 1) ELSE msgs
           s == [chat EXCEPT !.messages = kept]
           kind == IF chat.mode = "selected_text" /\ chat.lastSelectedTextRef # NULL
                   THEN "selected" ELSE "chat"
           text == IF kind = "selected" THEN chat.lastSelectedTextRef ELSE NULL
       IN  /\ chat' = [Sending(s, kind, chat.lastUserMessageRef, text)
                          EXCEPT !.op = <<"retry", kind>>]
           /\ chatNet' = chatNet \cup {ChatRequest(s, kind, chat.lastUserMessageRef, text)}
    /\ UNCHANGED convStore

\* the mode indicator's exit button, rendered in selected-text mode only
handleExitSelectedTextMode ==
    /\ Routed(chat) = "selected"
    /\ exitSelectedTextMode

\* the clear button, rendered while there are messages
ClearButton ==
    /\ chat.messages # <<>>
    /\ clearConversation

\* the retry button of ErrorDisplay, rendered while error is set
ErrorDisplay ==
    /\ chat.error # NULL
    /\ retryLastMessage

(***************************************************************************)
(* useTextSelection and the TextSelector                                   *)
(***************************************************************************)
NoSelection == [text |-> NULL, validationError |-> NULL]

validateSelection_exclusive(text) ==
    IF Length(Trim(text)) = 0 THEN "empty"
    ELSE IF Length(Trim(text)) <= minLength THEN "short"
    ELSE IF Length(Trim(text)) >= maxLength THEN "long"
    ELSE NULL

validateSelection(text) ==
    IF Length(Trim(text)) = 0 THEN "empty"
    ELSE IF Length(Trim(text)) < minLength THEN "short"
    ELSE IF Length(Trim(text)) > maxLength THEN "long"
    ELSE NULL

\* selection?.text.trim() || ''
selectedText(s) == IF s.text = NULL THEN <<0, 0>> ELSE Trim(s.text)

isValidSelection(s) == Length(selectedText(s)) > 0 /\ s.validationError = NULL

\* the browser's selectionchange event with a selection that is not collapsed
handleSelectionChange(text) ==
    /\ sel' = [text |-> text, validationError |-> validateSelection(text)]
    /\ UNCHANGED <<chat, chatNet, convStore>>

\* the selectionchange event with no or a collapsed selection, and the cancel button
clearSelection ==
    /\ sel # NoSelection
    /\ sel' = NoSelection
    /\ UNCHANGED <<chat, chatNet, convStore>>

\* the page hands the text of onAskAboutSelection to the ChatWidget as its selectedText
\* prop, whose effect enters selected-text mode when the text is not blank
onAskAboutSelection(text) ==
    /\ Length(Trim(text)) > 0
    /\ enterSelectedTextMode(text)

\* the ask button of the TextSelector
handleAsk ==
    /\ isValidSelection(sel)
    /\ onAskAboutSelection(selectedText(sel))
    /\ sel' = NoSelection

(***************************************************************************)
(* usePageTranslation, PageTranslationContext and the page                 *)
(***************************************************************************)
MaxRuns == 2          \* translation requests issued by translatePage in one session

maxAttempts == 20

Languages == {"ur", "en"}

\* a text node's content is <<words, surrounding whitespace, language>>; words 0 is none
Blank(t) == t[1] = 0

\* textContent?.trim()
TrimText(t) == <<t[1], 0, t[3]>>

\* no data-original-text attribute
NoText == <<0, 0, "none">>

\* lastTranslationKey.current = ''
NoKey == <<"none", FALSE>>

\* an element under the root: its text node children and its translation attributes
Element(texts, excluded) ==
    [texts |-> texts, excluded |-> excluded, translated |-> FALSE, original |-> NoText]

\* the pages of the book: a paragraph of plain text; one with whitespace around its text;
\* one with two text nodes (inline markup between them); one that starts with a
\* whitespace-only text node; a paragraph followed by a code block
Pages ==
    { <<Element(<< <<1, 0, "book">> >>, FALSE)>>,
      <<Element(<< <<1, 1, "book">> >>, FALSE)>>,
      <<Element(<< <<1, 0, "book">>, <<2, 0, "book">> >>, FALSE)>>,
      <<Element(<< <<0, 1, "book">>, <<1, 0, "book">> >>, FALSE)>>,
      <<Element(<< <<1, 0, "book">> >>, FALSE), Element(<< <<2, 0, "book">> >>, TRUE)>> }

\* the state after the provider and the hook have mounted on a page, with the stored
\* preference; the effect has scheduled translatePage. restored records that the restore
\* branch has run since translation was last enabled
PageLoaded(dom, enabled) ==
    [dom |-> dom, loaded |-> dom, isEnabled |-> enabled, language |-> "ur",
     isTranslating |-> FALSE, error |-> NULL, lastTranslationKey |-> NoKey,
     isTranslatingRef |-> FALSE, due |-> dom # <<>>, runs |-> 0, restored |-> FALSE,
     retranslated |-> FALSE]

\* shouldTranslateTextNode for child k of element e
shouldTranslateTextNode(dom, e, k) ==
    /\ ~Blank(dom[e].texts[k])
    /\ ~dom[e].excluded
    /\ ~dom[e].translated

NodesFrom(dom, e) == [k \in 1..Len(dom[e].texts) |-> <<e, k>>]

RECURSIVE AllNodes(_, _)
AllNodes(dom, e) ==
    IF e > Len(dom) THEN <<>> ELSE NodesFrom(dom, e) \o AllNodes(dom, e + 1)

\* collectTextNodes: the translatable text nodes in document order
collectTextNodes(dom) ==
    SelectSeq(AllNodes(dom, 1), LAMBDA n : shouldTranslateTextNode(dom, n[1], n[2]))

\* restoreOriginalText for one element: the original goes into its first text node child
restoreElement(el) ==
    IF el.translated /\ el.original # NoText
    THEN [el EXCEPT !.texts = IF Len(@) > 0 THEN [@ EXCEPT ![1] = el.original] ELSE @,
                    !.translated = FALSE, !.original = NoText]
    ELSE el

restoreOriginalText(dom) == [e \in 1..Len(dom) |-> restoreElement(dom[e])]

\* the content the backend returns for the combined text, one piece per text
Translation(originalTexts, language) ==
    [i \in 1..Len(originalTexts) |-> <<originalTexts[i][1], 0, language>>]

\* applyTranslation, node by node
RECURSIVE applyFrom(_, _, _, _, _)
applyFrom(dom, content, textNodes, originalTexts, i) ==
    IF i > Len(textNodes) THEN dom
    ELSE LET n == textNodes[i]
             d == IF i <= Len(content) /\ ~Blank(content[i])
                  THEN [dom EXCEPT ![n[1]].original = originalTexts[i],
                                   ![n[1]].translated = TRUE,
                                   ![n[1]].texts[n[2]] = content[i]]
                  ELSE dom
         IN  applyFrom(d, content, textNodes, originalTexts, i + 1)

applyTranslation(dom, content, textNodes, originalTexts) ==
    applyFrom(dom, content, textNodes, originalTexts, 1)

\* currentKey of translatePage (the pathname does not change on one page)
CurrentKey == <<page.language, page.isEnabled>>

\* the finally block of translatePage
Finally(s) == [s EXCEPT !.isTranslatingRef = FALSE, !.isTranslating = FALSE]

\* the effect on [translatePage]: a change of isEnabled or language schedules a run
Rendered(s) ==
    [s EXCEPT !.due = @ \/ s.isEnabled # page.isEnabled \/ s.language # page.language]

enableTranslation ==
    /\ page' = Rendered([page EXCEPT !.isEnabled = TRUE, !.error = NULL,
                                     !.restored = FALSE])
    /\ UNCHANGED pageNet

disableTranslation ==
    /\ page' = Rendered([page EXCEPT !.isEnabled = FALSE, !.error = NULL])
    /\ UNCHANGED pageNet

toggleTranslation == IF page.isEnabled THEN disableTranslation ELSE enableTranslation

setLanguage(l) ==
    /\ page' = Rendered([page EXCEPT !.language = l])
    /\ UNCHANGED pageNet

\* the run of translatePage up to its await: guards, the restore branch, the collection
\* of the text nodes and the translation request
translatePage ==
    /\ page.due
    /\ LET s == [page EXCEPT !.due = FALSE]
           textNodes == collectTextNodes(page.dom)
       IN  IF page.isTranslatingRef \/ page.lastTranslationKey = CurrentKey
           THEN page' = s /\ UNCHANGED pageNet
           ELSE IF ~page.isEnabled
           THEN /\ page' = Finally([s EXCEPT !.error = NULL,
                                             !.dom = restoreOriginalText(@),
                                             !.lastTranslationKey = CurrentKey,
                                             !.restored = TRUE])
                /\ UNCHANGED pageNet
           ELSE IF textNodes = <<>>
           THEN /\ page' = Finally([s EXCEPT !.error = NULL,
                                             !.lastTranslationKey = CurrentKey])
                /\ UNCHANGED pageNet
           ELSE /\ page.runs < MaxRuns
                /\ page' = [s EXCEPT !.isTranslatingRef = TRUE, !.isTranslating = TRUE,
                                     !.error = NULL, !.runs = @ + 1]
                /\ pageNet' = pageNet \cup
                     {[id |-> page.runs + 1, stage |-> "request", attempts |-> 0,
                       textNodes |-> textNodes,
                       originalTexts |-> [i \in 1..Len(textNodes) |->
                            TrimText(page.dom[textNodes[i][1]].texts[textNodes[i][2]])],
                       key |-> CurrentKey, language |-> page.language]}

Ended(e) == pageNet' = pageNet \ {e}

Continued(e, e2) == pageNet' = (pageNet \ {e}) \cup {e2}

Applied(s, e) ==
    [s EXCEPT !.dom = applyTranslation(@, Translation(e.originalTexts, e.language),
                                       e.textNodes, e.originalTexts),
              !.lastTranslationKey = e.key]

\* api.requestTranslation rejects: the catch block and finally
requestFailed(e) ==
    /\ e.stage = "request"
    /\ page' = Finally([page EXCEPT !.error = "Translation failed",
                                    !.dom = restoreOriginalText(@)])
    /\ Ended(e)

\* the response has a status that is not 'completed': the first poll is scheduled and
\* translatePage returns through finally
requestPending(e) ==
    /\ e.stage = "request"
    /\ page' = Finally(page)
    /\ Continued(e, [e EXCEPT !.stage = "timer"])

\* the response has the content
requestCompleted(e) ==
    /\ e.stage = "request"
    /\ page' = Finally(Applied(page, e))
    /\ Ended(e)

poll_late(e) ==
    /\ e.stage = "timer"
    /\ IF e.attempts > maxAttempts
       THEN Ended(e)
       ELSE Continued(e, [e EXCEPT !.stage = "poll", !.attempts = @ + 1])
    /\ UNCHANGED page

\* poll, up to its await: the attempt is counted and, past maxAttempts, poll throws
\* inside its timer callback
poll(e) ==
    /\ e.stage = "timer"
    /\ IF e.attempts + 1 > maxAttempts
       THEN Ended(e)
       ELSE Continued(e, [e EXCEPT !.stage = "poll", !.attempts = @ + 1])
    /\ UNCHANGED page

\* api.getTranslation returned the content
pollCompleted(e) ==
    /\ e.stage = "poll"
    /\ page' = Applied(page, e)
    /\ Ended(e)

\* api.getTranslation returned a status: the next poll is scheduled
pollPending(e) ==
    /\ e.stage = "poll"
    /\ Continued(e, [e EXCEPT !.stage = "timer"])
    /\ UNCHANGED page

\* api.getTranslation rejects inside poll
pollFailed(e) ==
    /\ e.stage = "poll"
    /\ Ended(e)
    /\ UNCHANGED page

(***************************************************************************)
(* useAuth: the authentication hook, localStorage and the api client       *)
(***************************************************************************)
MaxAuthCalls == 2

Accounts == {"ann", "bob"}

\* the access_token of the TokenResponse issued for an account
AccessToken(a) == IF a = "ann" THEN "token_ann" ELSE "token_bob"

\* the UserResponse the backend returns for a bearer token
UserOf(t) == IF t = "token_ann" THEN "ann" ELSE "bob"

TOKEN_STORAGE_KEY == "rag_chatbot_auth_token"

\* the key apiFetch reads the bearer token from
FetchTokenKey == "auth_token"

StorageKeys == {TOKEN_STORAGE_KEY, FetchTokenKey}

\* useAuth before its mount effect, over the localStorage an earlier session left;
\* loggedOut and session are history: logout was called and no login or register
\* since; the access token of the last successful login or register, until logout
AuthOf(stored, persist) ==
    [user |-> NULL, status |-> "idle", error |-> NULL, token |-> NULL,
     persistToken |-> persist, mounted |-> FALSE,
     storage |-> [k \in StorageKeys |-> IF k = TOKEN_STORAGE_KEY THEN stored ELSE NULL],
     loggedOut |-> FALSE, session |-> NULL]

FreeCall == CHOOSE i \in 1..MaxAuthCalls : \A r \in authNet : r.id # i

CanCall == Cardinality(authNet) < MaxAuthCalls

Call(kind, bearer, account) ==
    [id |-> FreeCall, kind |-> kind, bearer |-> bearer, account |-> account,
     session |-> auth.session]

Called(kind, bearer, account) == authNet' = authNet \cup {Call(kind, bearer, account)}

Returned(r) == authNet' = authNet \ {r}

saveToken(s, newToken) ==
    [s EXCEPT !.token = newToken,
              !.storage = IF s.persistToken
                          THEN [@ EXCEPT ![TOKEN_STORAGE_KEY] = newToken] ELSE @]

clearToken(s) ==
    [s EXCEPT !.token = NULL, !.storage = [@ EXCEPT ![TOKEN_STORAGE_KEY] = NULL]]

\* the mount effect: load the stored token and validate it
mountAuth ==
    /\ ~auth.mounted
    /\ LET storedToken == auth.storage[TOKEN_STORAGE_KEY]
       IN  IF storedToken # NULL
           THEN /\ CanCall
                /\ auth' = [auth EXCEPT !.mounted = TRUE, !.token = storedToken,
                                        !.status = "loading"]
                /\ Called("validate", storedToken, NULL)
           ELSE /\ auth' = [auth EXCEPT !.mounted = TRUE, !.status = "unauthenticated"]
                /\ UNCHANGED authNet

\* api.getCurrentUser(storedToken) resolved
validated(r) ==
    /\ r.kind = "validate"
    /\ auth' = [auth EXCEPT !.user = UserOf(r.bearer), !.status = "authenticated"]
    /\ Returned(r)

\* api.getCurrentUser(storedToken) rejected
validationFailed(r) ==
    /\ r.kind = "validate"
    /\ auth' = [clearToken(auth) EXCEPT !.status = "unauthenticated"]
    /\ Returned(r)

\* register and login up to their await
signIn(kind, a) ==
    /\ auth.mounted
    /\ CanCall
    /\ auth' = [auth EXCEPT !.status = "loading", !.error = NULL, !.loggedOut = FALSE]
    /\ Called(kind, NULL, a)

register(a) == signIn("register", a)

login(a) == signIn("login", a)

\* api.register or api.login resolved with a TokenResponse
signedIn(r) ==
    /\ r.kind \in {"register", "login"}
    /\ auth' = [saveToken(auth, AccessToken(r.account)) EXCEPT
                    !.user = r.account, !.status = "authenticated",
                    !.session = AccessToken(r.account)]
    /\ Returned(r)

\* api.register or api.login rejected: the catch block
signInFailed(r) ==
    /\ r.kind \in {"register", "login"}
    /\ auth' = [auth EXCEPT !.status = "unauthenticated",
                            !.error = IF r.kind = "login" THEN "Login failed"
                                      ELSE "Registration failed"]
    /\ Returned(r)

LoggedOut(s) ==
    [clearToken(s) EXCEPT !.user = NULL, !.status = "unauthenticated", !.error = NULL,
                          !.loggedOut = TRUE, !.session = NULL]

logout ==
    /\ auth.mounted
    /\ auth' = LoggedOut(auth)
    /\ UNCHANGED authNet

\* refreshUser up to its await
refreshUser ==
    /\ auth.mounted
    /\ auth.token # NULL
    /\ CanCall
    /\ Called("refresh", auth.token, NULL)
    /\ UNCHANGED auth

refreshed(r) ==
    /\ r.kind = "refresh"
    /\ auth' = [auth EXCEPT !.user = UserOf(r.bearer)]
    /\ Returned(r)

\* api.getCurrentUser rejected inside refreshUser: logout()
refreshFailed(r) ==
    /\ r.kind = "refresh"
    /\ auth' = LoggedOut(auth)
    /\ Returned(r)

\* updatePreferences up to its await
updatePreferences ==
    /\ auth.mounted
    /\ auth.token # NULL
    /\ CanCall
    /\ Called("preferences", auth.token, NULL)
    /\ UNCHANGED auth

preferencesUpdated(r) ==
    /\ r.kind = "preferences"
    /\ auth' = [auth EXCEPT !.user = UserOf(r.bearer)]
    /\ Returned(r)

preferencesFailed(r) ==
    /\ r.kind = "preferences"
    /\ auth' = [auth EXCEPT !.error = "Failed to update preferences"]
    /\ Returned(r)

\* the Authorization header apiFetch adds: the bearer token it finds in localStorage
apiFetch(storage) == storage[FetchTokenKey]

\* api.chat and api.chatSelected: a chat request through apiFetch
chatRequest(kind) ==
    /\ auth.mounted
    /\ CanCall
    /\ Called(kind, apiFetch(auth.storage), NULL)
    /\ UNCHANGED auth

chatAnswered(r) ==
    /\ r.kind \in {"chat", "chatSelected"}
    /\ Returned(r)
    /\ UNCHANGED auth

AuthIdle ==
    /\ auth = AuthOf(NULL, TRUE)
    /\ authNet = {}

(***************************************************************************)
(* Initial states of the three subsystems                                  *)
(***************************************************************************)
TransIdle ==
    /\ jobs = {}
    /\ now = 0
    /\ net = EmptyBag
    /\ cl = [c \in Clients |->
               [status |-> "idle", content |-> NoContent, error |-> NULL,
                chapter |-> NULL, timer |-> NULL, mounted |-> TRUE]]

\* useChat as mounted with options.initialConversationId = id (NULL if not given).
\* History fields: op is the last operation of the hook, stale says that the request
\* in flight was sent before the last reset of the conversation, supplied is the id a
\* response has given to the current conversation, onError counts the onError calls
\* of the last operation, failed is the failed attempt on display
Mounted(id) ==
    [messages |-> <<>>, conversationId |-> id, isLoading |-> FALSE,
     error |-> NULL, mode |-> "full_book", selectedText |-> NULL,
     lastUserMessageRef |-> NULL, lastSelectedTextRef |-> NULL, sends |-> 0,
     op |-> <<"mount", NULL>>, stale |-> FALSE, supplied |-> id, onError |-> 0,
     failed |-> NoFailure]

ChatIdle ==
    /\ chat = Mounted(NULL)
    /\ chatNet = {}
    /\ convStore = <<>>
    /\ sel = NoSelection

PageIdle ==
    /\ page = PageLoaded(<<>>, FALSE)
    /\ pageNet = {}

GateIdle ==
    /\ gateIn = [fragments |-> <<>>, threshold |-> CONFIDENCE_THRESHOLD]
    /\ decision = {}

(***************************************************************************)
(* Specification of the translation subsystem                              *)
(***************************************************************************)
InitTrans == TransIdle /\ ChatIdle /\ GateIdle /\ PageIdle /\ AuthIdle

BackendTrans ==
    \/ \E r \in InFlight : Lookup(r)
    \/ \E r \in InFlight : Claim(r)
    \/ \E r \in InFlight : RequestFails(r)
    \/ \E j \in jobs : StartGenerating(j)
    \/ \E j \in jobs : Complete(j)
    \/ \E j \in jobs : Fail(j)
    \/ \E j \in jobs : Invalidate(j)
    \/ Tick

HookTrans ==
    \/ \E c \in Clients : \E ch \in Chapters : CanSend(c) /\ requestTranslation(c, ch)
    \/ \E c \in Clients : \E ch \in Chapters : CanSend(c) /\ getTranslation(c, ch)
    \/ \E c \in Clients : CanSend(c) /\ pollTick(c)
    \/ \E r \in InFlight : requestTranslationSettled(r)
    \/ \E r \in InFlight : getTranslationSettled(r)
    \/ \E r \in InFlight : pollTranslationSettled(r)
    \/ \E c \in Clients : reset(c)
    \/ \E c \in Clients : unmount(c)

NextTrans == (BackendTrans \/ HookTrans) /\ UNCHANGED <<chatVars, gateVars, pageVars, authVars>>

SpecTrans == InitTrans /\ [][NextTrans]_vars

\* Callers that issue requestTranslation and keep polling: a caller calls again only
\* when it is not waiting for a job, and every request is answered.
KeepsPolling(c) == cl[c].status \notin {"loading", "polling"}

NextPoll ==
    /\ \/ \E r \in InFlight : Lookup(r)
       \/ \E r \in InFlight : Claim(r)
       \/ \E j \in jobs : StartGenerating(j)
       \/ \E j \in jobs : Complete(j)
       \/ \E j \in jobs : Fail(j)
       \/ Tick
       \/ \E c \in Clients : \E ch \in Chapters :
             KeepsPolling(c) /\ CanSend(c) /\ requestTranslation(c, ch)
       \/ \E c \in Clients : CanSend(c) /\ pollTick(c)
       \/ \E r \in InFlight : requestTranslationSettled(r)
       \/ \E r \in InFlight : pollTranslationSettled(r)
    /\ UNCHANGED <<chatVars, gateVars, pageVars, authVars>>

Framed(A) == A /\ UNCHANGED <<chatVars, gateVars, pageVars, authVars>>

\* the event loop runs every timer callback and every continuation, the backend
\* serves every request it receives, and the background job makes progress
FairSpecPoll ==
    /\ InitTrans /\ [][NextPoll]_vars
    /\ \A c \in Clients :
         /\ WF_vars(Framed(CanSend(c) /\ pollTick(c)))
         /\ WF_vars(Framed(\E r \in InFlight : r.client = c /\ (Lookup(r) \/ Claim(r))))
         /\ WF_vars(Framed(\E r \in InFlight : r.client = c /\
                             (requestTranslationSettled(r) \/ pollTranslationSettled(r))))
    /\ WF_vars(Framed(\E j \in jobs : StartGenerating(j)))
    /\ WF_vars(Framed(\E j \in jobs : Complete(j) \/ Fail(j)))

\* the background job runs on its own: it needs no caller to make progress
FairSpecTrans ==
    /\ SpecTrans
    /\ WF_vars(\E j \in jobs : StartGenerating(j) /\ UNCHANGED <<chatVars, gateVars, pageVars, authVars>>)
    /\ WF_vars(\E j \in jobs : (Complete(j) \/ Fail(j)) /\ UNCHANGED <<chatVars, gateVars, pageVars, authVars>>)

(***************************************************************************)
(* Specification of one useTranslation instance with overlapping calls     *)
(***************************************************************************)
MaxOverlap == 2       \* calls the hook instance has outstanding at once

\* the hook instance under observation
Hook == 1

HookChapters == {"ch1", "ch2"}

CanOverlap == Outstanding(Hook) < MaxOverlap

NextHook ==
    /\ \/ \E r \in InFlight : Lookup(r)
       \/ \E r \in InFlight : Claim(r)
       \/ \E r \in InFlight : RequestFails(r)
       \/ \E j \in jobs : StartGenerating(j)
       \/ \E j \in jobs : Complete(j)
       \/ \E j \in jobs : Fail(j)
       \/ \E ch \in HookChapters : CanOverlap /\ requestTranslation(Hook, ch)
       \/ \E ch \in HookChapters : CanOverlap /\ getTranslation(Hook, ch)
       \/ CanOverlap /\ pollTick(Hook)
       \/ \E r \in InFlight : requestTranslationSettled(r)
       \/ \E r \in InFlight : getTranslationSettled(r)
       \/ \E r \in InFlight : pollTranslationSettled(r)
       \/ reset(Hook)
    /\ UNCHANGED <<chatVars, gateVars, pageVars, authVars>>

SpecHook == InitTrans /\ [][NextHook]_vars

(***************************************************************************)
(* Specification of the TranslateButton beside another caller              *)
(***************************************************************************)
\* the hook instance of the TranslateButton, and a caller of requestTranslation
Button == 1
Caller == 2

NextButton ==
    /\ \/ \E r \in InFlight : Lookup(r)
       \/ \E r \in InFlight : Claim(r)
       \/ \E j \in jobs : StartGenerating(j)
       \/ \E j \in jobs : Complete(j)
       \/ \E j \in jobs : Fail(j)
       \/ Tick
       \/ CanSend(Button) /\ handleClick(Button)
       \/ \E r \in InFlight : r.client = Button /\ handleClickSettled(r)
       \/ \E ch \in Chapters :
             KeepsPolling(Caller) /\ CanSend(Caller) /\ requestTranslation(Caller, ch)
       \/ \E r \in InFlight : requestTranslationSettled(r)
       \/ \E c \in Clients : CanSend(c) /\ pollTick(c)
       \/ \E r \in InFlight : pollTranslationSettled(r)
    /\ UNCHANGED <<chatVars, gateVars, pageVars, authVars>>

\* the user clicks whenever the button is enabled, the event loop runs every timer
\* callback and continuation, the backend serves every request and runs its jobs
FairSpecButton ==
    /\ InitTrans /\ [][NextButton]_vars
    /\ WF_vars(Framed(CanSend(Button) /\ handleClick(Button)))
    /\ WF_vars(Framed(\E r \in InFlight : Lookup(r) \/ Claim(r)))
    /\ WF_vars(Framed(\E r \in InFlight :
                        \/ r.client = Button /\ handleClickSettled(r)
                        \/ requestTranslationSettled(r)
                        \/ pollTranslationSettled(r)))
    /\ \A c \in Clients : WF_vars(Framed(CanSend(c) /\ pollTick(c)))
    /\ WF_vars(Framed(\E j \in jobs : StartGenerating(j)))
    /\ WF_vars(Framed(\E j \in jobs : Complete(j) \/ Fail(j)))

(***************************************************************************)
(* Claims about the translation subsystem                                  *)
(***************************************************************************)
InProgress(k) == {j \in RowsOf(k) : j.status \in {"pending", "generating"}}

\* C1: for every key, however the concurrent requestTranslation calls interleave,
\* at most one job of the key exists, so at most one is pending or generating
\* (only one claim succeeds), and every job enters generating exactly once.
C1_AtMostOneGeneration ==
    /\ \A k \in Keys : Cardinality(RowsOf(k)) <= 1 /\ Cardinality(InProgress(k)) <= 1
    /\ \A j \in jobs : j.starts = (IF j.status = "pending" THEN 0 ELSE 1)

\* C1 witness: two callers raced for the same key; one has claimed it and its job
\* is pending or generating while the other, which saw the key free, is about to claim.
C1_Witness ==
    \E r \in InFlight :
        /\ r.stage = "claim"
        /\ \E j \in InProgress(r.key) : j.owner # r.client

\* requests whose record changed in this step
Touched == {x \in BagToSet(net') : CopiesIn(x, net') > CopiesIn(x, net)}

\* C8: a lookup of a key whose job is completed answers with the stored content,
\* leaving the table unchanged, exactly when expires_at is not reached; when it is
\* reached the content is not served (a POST goes on to claim, a GET finds nothing),
\* and the claim replaces the old job by a pending one.
C8_CacheHitIffFresh ==
    [][\A r \in InFlight :
        LET done == {j \in RowsOf(r.key) : j.status = "completed"}
        IN  /\ (Lookup(r) /\ done # {}) =>
                 /\ jobs' = jobs
                 /\ \A x \in Touched :
                      IF \E j \in done : now < j.expires_at
                      THEN \E j \in done : x.resp = ContentResp(j.content)
                      ELSE /\ x.resp.type # "content"
                           /\ x.stage = (IF r.method = "POST" THEN "claim" ELSE "done")
            /\ (Claim(r) /\ done # {} /\ \A j \in done : now >= j.expires_at) =>
                 /\ \A j \in RowsOf(r.key)' : j.status = "pending" /\ j.content = NoContent
                 /\ RowsOf(r.key)' # {}
      ]_vars

\* C8 witness: a POST found a completed job past its expires_at and is about to reclaim.
C8_Witness ==
    \E r \in InFlight : r.stage = "claim" /\ \E j \in RowsOf(r.key) : Expired(j)

FreshJobs(k) == {j \in RowsOf(k) : Fresh(j)}

\* caller c polls a key whose job is completed and fresh, and no answer from an
\* earlier generation is on its way to c
PollsFresh(c) ==
    /\ cl[c].status = "polling" /\ cl[c].timer # NULL
    /\ FreshJobs(Key(cl[c].timer)) # {}
    /\ \A r \in InFlight : \A j \in FreshJobs(r.key) :
         (r.client = c /\ r.resp.type = "content") => r.resp.content = j.content

ObservedCompleted(c) ==
    /\ cl[c].status = "completed"
    /\ \E j \in FreshJobs(Key(cl[c].chapter)) : cl[c].content = j.content

Transitions ==
    {<<"absent", "pending">>, <<"pending", "generating">>, <<"generating", "completed">>,
     <<"generating", "failed">>, <<"completed", "absent">>, <<"failed", "pending">>}

\* C9: a key starts absent, its status changes only along
\* absent->pending->generating->{completed, failed}, completed->absent, failed->pending,
\* and a claim of a failed key makes it pending.
C9_StateMachine ==
    /\ \A k \in Keys : Status(k) = "absent"
    /\ [][/\ \A k \in Keys :
               Status(k)' # Status(k) => <<Status(k), Status(k)'>> \in Transitions
          /\ \A r \in InFlight :
               (Claim(r) /\ Status(r.key) = "failed") => Status(r.key)' = "pending"
         ]_vars

\* C9 witness: a later request found the job failed and is about to reclaim the key.
C9_Witness ==
    \E r \in InFlight : r.stage = "claim" /\ \E j \in RowsOf(r.key) : j.status = "failed"

\* C10: reset and unmount change neither the job table nor the requests in flight,
\* and a pending or generating job reaches completed or failed whoever is polling.
C10_AbandonDoesNotCancel ==
    /\ [][\A c \in Clients : (reset(c) \/ unmount(c)) => UNCHANGED <<jobs, net>>]_vars
    /\ \A k \in Keys : (InProgress(k) # {}) ~> (Status(k) \in {"completed", "failed"})

\* C10 witness: the caller that claimed the job has left while the job is in progress.
C10_Witness ==
    \E j \in jobs :
        /\ j.status \in {"pending", "generating"}
        /\ Outstanding(j.owner) = 0
        /\ ~cl[j.owner].mounted \/ cl[j.owner].status = "idle"

(***************************************************************************)
(* Specification of the chat subsystem                                     *)
(***************************************************************************)
\* a conversation of an earlier session, which the widget may be mounted with
EarlierConversation == <<"conv", 0>>

InitChat ==
    /\ TransIdle /\ GateIdle /\ PageIdle /\ AuthIdle
    /\ \/ chat = Mounted(NULL) /\ convStore = <<>>
       \/ chat = Mounted(EarlierConversation) /\ convStore = (EarlierConversation :> 1)
    /\ chatNet = {}
    /\ sel = NoSelection

WidgetAndEngine ==
    \/ \E q \in Questions : handleSendMessage(q)
    \/ handleExitSelectedTextMode
    \/ ClearButton
    \/ ErrorDisplay
    \/ \E r \in chatNet : sendMessageSettled(r)
    \/ \E r \in chatNet : sendSelectedTextMessageSettled(r)
    \/ \E r \in chatNet : Retrieve(r)
    \/ \E r \in chatNet : Generate(r)
    \/ \E r \in chatNet : AnswerSelected(r)
    \/ \E r \in chatNet : ChatRequestFails(r)

NextChat ==
    /\ \/ WidgetAndEngine /\ UNCHANGED sel
       \/ \E t \in SelectedTexts : handleSelectionChange(t)
       \/ clearSelection
       \/ handleAsk
    /\ UNCHANGED <<transVars, gateVars, pageVars, authVars>>

SpecChat == InitChat /\ [][NextChat]_vars

(***************************************************************************)
(* The gate as a function of its inputs                                     *)
(***************************************************************************)
InitGate ==
    /\ TransIdle /\ ChatIdle /\ PageIdle /\ AuthIdle
    /\ gateIn \in [fragments : FragmentLists, threshold : Scores]
    /\ decision = {}

Evaluate ==
    /\ decision = {}
    /\ decision' = {evaluate(gateIn.fragments, gateIn.threshold)}
    /\ UNCHANGED gateIn

NextQuery ==
    /\ decision # {}
    /\ gateIn' \in [fragments : FragmentLists, threshold : {gateIn.threshold}]
    /\ decision' = {}

NextGate == (Evaluate \/ NextQuery) /\ UNCHANGED <<transVars, chatVars, pageVars, authVars>>

SpecGate == InitGate /\ [][NextGate]_vars

(***************************************************************************)
(* Claims about the gate and the answer engine                             *)
(***************************************************************************)
Range(f) == {f[i] : i \in 1..Len(f)}

\* max_similarity is the maximum score of the returned fragments, 0 when none is returned
IsMaxOf(m, f) ==
    IF f = <<>> THEN m = 0 ELSE m \in Range(f) /\ \A x \in Range(f) : x <= m

\* C3: a full-book query whose max_similarity is below the threshold is answered with
\* is_covered = false, no citations and exactly the fallback phrase, and the
\* Generative Answer Service is never invoked for it.
C3_NotCoveredShortCircuits ==
    \A r \in chatNet : \A d \in r.decision :
        d.max_similarity < CONFIDENCE_THRESHOLD =>
            /\ "generate" \notin r.calls
            /\ r.stage = "done"
            /\ r.result = [text |-> FallbackBook, is_covered |-> FALSE,
                           source_citations |-> {}]
            /\ r.resp.type = "answer"
            /\ r.resp.message = FallbackBook
            /\ r.resp.sources = {}
            /\ ~r.resp.is_covered

\* a query with fragments, all below the threshold, has been answered
C3_Witness ==
    \E r \in chatNet : \E d \in r.decision :
        /\ d.fragments # <<>>
        /\ d.max_similarity < CONFIDENCE_THRESHOLD
        /\ r.stage = "done"

AssistantIds(s) == {s.messages[i].id : i \in {k \in 1..Len(s.messages) :
                                                 s.messages[k].role = "assistant"}}

\* C5: a collaborator failure is surfaced as an error: the failed request has no
\* AnswerResult and an error response, and when the hook settles it no assistant message
\* is added (in particular none with the fallback phrase) and error is set.
C5_FailureIsAnError ==
    /\ [](\A r \in chatNet : r.failed # NULL =>
             /\ r.result = NoResult
             /\ r.resp = ChatErrorResp(r.failed))
    /\ [][\A r \in chatNet : (r.resp.type = "error" /\ r \notin chatNet') =>
             /\ AssistantIds(chat') = AssistantIds(chat)
             /\ \A i \in 1..Len(chat'.messages) : chat'.messages[i].id[1] # r.id
             /\ chat'.error = r.failed
             /\ ~chat'.isLoading]_vars

\* the hook has settled a request whose generation failed after a covered decision
C5_Witness ==
    /\ chat.op[1] = "settle"
    /\ chat.error \in {"GenerationUnavailable", "GenerationTimeout"}
    /\ chat.op[2] = "chat"

PostState ==
    /\ chat.op[1] = "enter" =>
          /\ chat.messages = <<>> /\ chat.conversationId = NULL /\ chat.error = NULL
          /\ chat.mode = "selected_text" /\ chat.selectedText = chat.op[2]
    /\ chat.op[1] = "exit" =>
          /\ chat.messages = <<>> /\ chat.conversationId = NULL /\ chat.error = NULL
          /\ chat.mode = "full_book" /\ chat.selectedText = NULL

\* C7: immediately after enterSelectedTextMode(text) or exitSelectedTextMode() messages is
\* empty, conversationId and error are null and (mode, selectedText) is
\* ('selected_text', text) or ('full_book', null), so the question asked next from that
\* state carries no conversation id and, after exit, no selected text.
C7_ModeSwitchResets ==
    /\ []PostState
    /\ [][\A r \in chatNet' :
             (r.id > chat.sends /\ chat.op[1] \in {"enter", "exit"}) =>
                /\ r.conversation_id = NULL
                /\ chat.op[1] = "enter" =>
                      r.kind = "selected" /\ r.selected_text = chat.op[2]
                /\ chat.op[1] = "exit" =>
                      r.kind = "chat" /\ r.selected_text = NULL]_vars

\* after a full-book exchange that created a conversation, the first question after
\* entering selected-text mode is in flight
C7_Witness ==
    /\ chat.op = <<"send", "selected">>
    /\ Len(chat.messages) = 1
    /\ \E n \in 1..MaxSends : <<"conv", n>> \in DOMAIN convStore
    /\ \E r \in chatNet : r.id = chat.sends /\ r.conversation_id = NULL

InitAuth ==
    /\ TransIdle /\ ChatIdle /\ GateIdle /\ PageIdle
    /\ auth \in {AuthOf(stored, persist) :
                    stored \in {NULL, AccessToken("ann")}, persist \in BOOLEAN}
    /\ authNet = {}

NextAuth ==
    /\ \/ mountAuth
       \/ \E r \in authNet : validated(r)
       \/ \E r \in authNet : validationFailed(r)
       \/ \E a \in Accounts : register(a)
       \/ \E a \in Accounts : login(a)
       \/ \E r \in authNet : signedIn(r)
       \/ \E r \in authNet : signInFailed(r)
       \/ logout
       \/ refreshUser
       \/ \E r \in authNet : refreshed(r)
       \/ \E r \in authNet : refreshFailed(r)
       \/ updatePreferences
       \/ \E r \in authNet : preferencesUpdated(r)
       \/ \E r \in authNet : preferencesFailed(r)
       \/ \E kind \in {"chat", "chatSelected"} : chatRequest(kind)
       \/ \E r \in authNet : chatAnswered(r)
    /\ UNCHANGED <<transVars, chatVars, gateVars, pageVars>>

SpecAuth == InitAuth /\ [][NextAuth]_vars

(***************************************************************************)
(* Specification of page translation                                       *)
(***************************************************************************)
InitPage ==
    /\ TransIdle /\ ChatIdle /\ GateIdle /\ AuthIdle
    /\ page \in {PageLoaded(dom, enabled) : dom \in Pages, enabled \in BOOLEAN}
    /\ pageNet = {}

NextPage ==
    /\ \/ toggleTranslation
       \/ \E l \in Languages : setLanguage(l)
       \/ translatePage
       \/ \E e \in pageNet : requestFailed(e)
       \/ \E e \in pageNet : requestPending(e)
       \/ \E e \in pageNet : requestCompleted(e)
       \/ \E e \in pageNet : poll(e)
       \/ \E e \in pageNet : pollCompleted(e)
       \/ \E e \in pageNet : pollPending(e)
       \/ \E e \in pageNet : pollFailed(e)
    /\ UNCHANGED <<transVars, chatVars, gateVars, authVars>>

SpecPage == InitPage /\ [][NextPage]_vars

\* polling on a page of one plain paragraph
PlainPage == <<Element(<< <<1, 0, "book">> >>, FALSE)>>

InitPlainPage == InitPage /\ page.loaded = PlainPage

\* retranslate of the context: setRetranslateCounter is all it does, and no
\* effect, callback or consumer reads retranslateCounter, so the re-render it
\* causes changes neither the key nor the dependencies of the translate
\* effect; retranslated records that the call was made
retranslate ==
    /\ page' = Rendered([page EXCEPT !.retranslated = TRUE])
    /\ UNCHANGED pageNet

\* the page hook with a consumer of the context that also calls retranslate
NextContext ==
    /\ \/ toggleTranslation
       \/ \E l \in Languages : setLanguage(l)
       \/ retranslate
       \/ translatePage
       \/ \E e \in pageNet : requestFailed(e)
       \/ \E e \in pageNet : requestPending(e)
       \/ \E e \in pageNet : requestCompleted(e)
       \/ \E e \in pageNet : poll(e)
       \/ \E e \in pageNet : pollCompleted(e)
       \/ \E e \in pageNet : pollPending(e)
       \/ \E e \in pageNet : pollFailed(e)
    /\ UNCHANGED <<transVars, chatVars, gateVars, authVars>>

SpecContext == InitPlainPage /\ [][NextContext]_vars

\* timers fire and every api call is settled
FairSpecPage ==
    /\ InitPlainPage /\ [][NextPage]_vars
    /\ WF_vars(\E e \in pageNet : poll(e) /\ UNCHANGED <<transVars, chatVars, gateVars, authVars>>)
    /\ WF_vars(\E e \in pageNet :
                  /\ pollCompleted(e) \/ pollPending(e) \/ pollFailed(e)
                  /\ UNCHANGED <<transVars, chatVars, gateVars, authVars>>)

(***************************************************************************)
(* Claims about page translation                                           *)
(***************************************************************************)
\* no element carries data-translated or data-original-text
Clean(s) == \A e \in 1..Len(s.dom) : ~s.dom[e].translated /\ s.dom[e].original = NoText

\* every text node holds the text it was loaded with
TextsAsLoaded(s) == \A e \in 1..Len(s.dom) : s.dom[e].texts = s.loaded[e].texts

\* every text node shows text of the book, none a translation
ShowsOriginal(s) ==
    \A e \in 1..Len(s.dom) : \A k \in 1..Len(s.dom[e].texts) : s.dom[e].texts[k][3] = "book"

\* translation is disabled and the restore for the disabled state has run
Restored(s) == ~s.isEnabled /\ s.restored

\* C12: page translation is reversible: once translation is disabled again and the page
\* restored, every text node holds exactly the text it had before translation and no
\* data-translated or data-original-text attribute is left.
C12_Reversible ==
    (Restored(page) /\ pageNet = {}) => (TextsAsLoaded(page) /\ Clean(page))

\* C13: whenever translation is disabled and the restore for the disabled state has run,
\* no element carries data-translated, until translation is enabled again, also when a
\* poll started while translation was enabled completes afterwards.
C13_StaysOriginal == Restored(page) => Clean(page)

\* the step ends a translation attempt in failure: the request fails, a poll fails, or
\* the poll after the last attempt times out
AttemptFails(e) ==
    \/ requestFailed(e)
    \/ pollFailed(e)
    \/ poll(e) /\ e.attempts = maxAttempts

\* C14: whenever a translation attempt fails (request failure, poll failure, polling
\* timeout) the context error is set to a message and the page shows its original text.
C14_FailsGracefully ==
    [][\A e \in pageNet : AttemptFails(e) => (page'.error # NULL /\ ShowsOriginal(page'))]_vars

Polling(id) == \E e \in pageNet : e.id = id /\ e.stage \in {"timer", "poll"}

\* the step ends polling episode e
EndsPolling(e) ==
    /\ e.stage \in {"timer", "poll"}
    /\ e \in pageNet
    /\ \A e2 \in pageNet' : e2.id # e.id

AtMostMaxAttempts == \A e \in pageNet : e.attempts <= maxAttempts

\* C15 as stated: at most 20 polls per episode, every episode terminates, and it ends
\* either by applying the completed translation or by the timeout after the 20th poll.
C15_PollingTerminates ==
    /\ []AtMostMaxAttempts
    /\ \A id \in 1..MaxRuns : Polling(id) ~> ~Polling(id)
    /\ [][\A e \in pageNet : EndsPolling(e) =>
             (pollCompleted(e) \/ (poll(e) /\ e.attempts = maxAttempts))]_vars

\* C15 amended: the same, an episode ending also when a status request fails.
C15_PollingTerminatesOrFails ==
    /\ []AtMostMaxAttempts
    /\ \A id \in 1..MaxRuns : Polling(id) ~> ~Polling(id)
    /\ [][\A e \in pageNet : EndsPolling(e) =>
             (pollCompleted(e) \/ pollFailed(e) \/ (poll(e) /\ e.attempts = maxAttempts))]_vars

\* an episode has issued its 20th poll and is waiting for the answer
C15_Witness ==
    \E e \in pageNet : e.stage = "poll" /\ e.attempts = maxAttempts

(***************************************************************************)
(* Claims about the conversation of useChat                                *)
(***************************************************************************)
\* the requests a step sends
Sent == {r \in chatNet' : r.id > chat.sends}

\* the step in which the hook takes the response of request r
Settles(r) == r \in chatNet /\ r.stage = "done" /\ r \notin chatNet'

\* C16: every request carries the id a response has supplied to the current
\* conversation: none for the first request of a conversation, and the supplied id for
\* every later one until clearConversation or a mode switch starts a new conversation.
C16_ConversationPreserved ==
    [][\A r \in Sent : r.conversation_id = chat.supplied]_vars

\* C17: at most one chat request is outstanding, it is outstanding only while isLoading
\* is true, and while isLoading is true no step sends a request and no change of
\* messages is made by sendMessage, sendSelectedTextMessage or retryLastMessage.
C17_OneOutstanding ==
    /\ [](Cardinality(chatNet) <= 1 /\ (chatNet # {} => chat.isLoading))
    /\ [][chat.isLoading =>
             /\ Sent = {}
             /\ chat'.sends = chat.sends
             /\ chat'.messages # chat.messages => chat'.op[1] \notin {"send", "retry"}]_vars

\* the second question of a conversation is in flight, after the first was answered
C17_Witness ==
    /\ chat.isLoading
    /\ chat.op[1] = "send"
    /\ chat.sends = 2
    /\ Len(chat.messages) = 3
    /\ Cardinality(chatNet) = 1

\* what a failed send leaves apart from messages: no new assistant message, the error,
\* one onError call, isLoading false
FailureReported(r) ==
    /\ AssistantIds(chat') \subseteq AssistantIds(chat)
    /\ chat'.error = r.resp.message
    /\ chat'.onError = 1
    /\ ~chat'.isLoading

\* C18 as stated: when the API call of a send fails, messages is what it was before the
\* send, no assistant message is added, error holds the failure, onError is called once
\* and isLoading is false.
C18_FailedSendRollsBack ==
    [][\A r \in chatNet : (Settles(r) /\ r.resp.type = "error") =>
          /\ Ids(chat'.messages) = r.before
          /\ FailureReported(r)]_vars

\* C18 with the reset in flight: messages is what it was before the send unless the
\* conversation was reset while the request was in flight, and then it stays empty.
C18_FailedSendRollsBackUnlessReset ==
    [][\A r \in chatNet : (Settles(r) /\ r.resp.type = "error") =>
          /\ Ids(chat'.messages) = IF chat.stale THEN <<>> ELSE r.before
          /\ FailureReported(r)]_vars

\* the second question of a conversation has just failed, the first exchange is shown
C18_Witness ==
    /\ chat.op[1] = "settle"
    /\ chat.onError = 1
    /\ chat.error # NULL
    /\ Len(chat.messages) = 2
    /\ ~chat.isLoading

\* C19: a retry keeps every message the conversation held before the failed send (the
\* catch block has removed the failed message, so these are the messages at the retry),
\* in order, and resends the failed question in the mode and with the selected text of
\* the failed attempt.
C19_RetryKeepsHistory ==
    [][(chat'.op[1] = "retry" /\ Sent # {}) =>
          /\ Len(chat'.messages) = Len(chat.messages) + 1
          /\ \A i \in 1..Len(chat.messages) : chat'.messages[i] = chat.messages[i]
          /\ \A r \in Sent :
                /\ r.message = chat.lastUserMessageRef
                /\ r.kind = chat.failed.kind
                /\ r.selected_text = chat.failed.text]_vars

\* C20: the response or failure of a request sent before enterSelectedTextMode,
\* exitSelectedTextMode or clearConversation changes neither messages nor
\* conversationId, and conversationId is never an id other than the one a response to
\* a request of the current conversation has supplied.
C20_NoLeakAcrossReset ==
    /\ [][\A r \in chatNet : (Settles(r) /\ chat.stale) =>
             /\ chat'.messages = chat.messages
             /\ chat'.conversationId = chat.conversationId]_vars
    /\ [](chat.conversationId = chat.supplied)

(***************************************************************************)
(* Claims about useTranslation and the TranslateButton                     *)
(***************************************************************************)
\* the step is a requestTranslation or getTranslation call of hook instance c
Calls(c) ==
    /\ BagCardinality(net') > BagCardinality(net)
    /\ \E r \in Touched : r.client = c /\ r.kind \in {"request", "get"}

\* the step issues a status poll of hook instance c
Polls(c) ==
    /\ BagCardinality(net') > BagCardinality(net)
    /\ \E r \in Touched : r.client = c /\ r.kind = "poll"

\* the step is reset() or the unmount of hook instance c
Resets(c) == cl[c].status # "idle" /\ cl'[c].status = "idle"

\* the step hands the response of request r to the hook
Answered(r) == r.stage = "done" /\ CopiesIn(r, net') < CopiesIn(r, net)

\* C21: in status 'completed' the polling timer is stopped, and until the next
\* requestTranslation, getTranslation or reset no status poll is issued and status
\* and content stay as they are.
C21_CompletedIsStable ==
    /\ [](\A c \in Clients : cl[c].status = "completed" => cl[c].timer = NULL)
    /\ [][\A c \in Clients : cl[c].status = "completed" =>
             \/ Calls(c)
             \/ Resets(c)
             \/ /\ ~Polls(c)
                /\ cl'[c].status = "completed"
                /\ cl'[c].content = cl[c].content
                /\ cl'[c].timer = NULL]_vars

\* C22: the response to a request or poll made for a chapter other than the chapter of
\* the most recent requestTranslation or getTranslation call changes neither status
\* nor content. currentChapterRef holds the chapter of the most recent call until a
\* response for another chapter restarts polling, which is a step this formula rejects.
C22_BelongsToLatestCall ==
    [][\A r \in InFlight :
          (Answered(r) /\ cl[r.client].chapter # NULL /\ cl[r.client].chapter # r.chapter) =>
             /\ cl'[r.client].status = cl[r.client].status
             /\ cl'[r.client].content = cl[r.client].content]_vars

\* C23: a hook instance that is polling eventually shows 'completed' or 'error' with
\* its polling timer stopped (the job ends completed or failed, polls are answered).
C23_PollingEnds ==
    \A c \in Clients :
        (cl[c].status = "polling")
            ~> (cl[c].status \in {"completed", "error"} /\ cl[c].timer = NULL)

\* C24: when the lookup of a click has failed, a POST request of the button for its
\* chapter follows.
C24_ClickRequests ==
    (cl[Button].status = "error")
        ~> (\E r \in InFlight :
               r.client = Button /\ r.method = "POST" /\ r.chapter = ButtonChapter)

\* C25: every POST request carries the content of its chapter as the source text.
C25_SendsContent ==
    \A r \in InFlight : r.method = "POST" => r.body = ChapterContent(r.chapter)


\* ---- Claims about the page translation context ----

\* C26: page translation runs never overlap: while a run is outstanding (its
\* request or its status polling has not ended) isTranslating is true, and a
\* further run of translatePage issues no request and leaves the DOM alone
C26_RunsNeverOverlap ==
    /\ [](pageNet # {} => page.isTranslating)
    /\ [][(translatePage /\ pageNet # {}) =>
            (pageNet' = pageNet /\ page'.dom = page.dom)]_vars

\* C27: retranslate() and a change of language while translation is enabled
\* each trigger a new run of translatePage, and the run triggered for a key
\* not yet translated issues a request in the language now selected
C27_Retranslates ==
    /\ [][(page.isEnabled /\ retranslate) => page'.due]_vars
    /\ [][\A l \in Languages \ {page.language} :
            (page.isEnabled /\ setLanguage(l)) => page'.due]_vars
    /\ [][(translatePage /\ page.isEnabled /\ page.lastTranslationKey # CurrentKey) =>
            \E e \in pageNet' \ pageNet : e.language = page.language]_vars


\* ---- Claims about useAuth and the api client ----

ChatCalls == {r \in authNet : r.kind \in {"chat", "chatSelected"}}

\* C28: with token persistence on, every chat request sent after a successful
\* login or register and before logout carries that access token in its
\* Authorization header
C28_ChatCarriesToken ==
    \A r \in ChatCalls :
        (auth.persistToken /\ r.session # NULL) => r.bearer = r.session

\* C29: status 'unauthenticated' implies user null, token null and no token
\* left in localStorage
C29_UnauthenticatedIsClean ==
    auth.status = "unauthenticated" =>
        /\ auth.user = NULL
        /\ auth.token = NULL
        /\ auth.storage[TOKEN_STORAGE_KEY] = NULL

\* C30: from logout() until login or register is called again the hook stays
\* unauthenticated with no user, no token and no stored token, whatever call
\* was in flight at the logout
C30_LogoutIsFinal ==
    auth.loggedOut =>
        /\ auth.status = "unauthenticated"
        /\ auth.user = NULL
        /\ auth.token = NULL
        /\ auth.storage[TOKEN_STORAGE_KEY] = NULL

====
